---------------------------- MODULE Spec2Model ----------------------------
(***************************************************************************)
(* Pump head calculator (stpcalculationbyreadingvalueexcelfile.py).        *)
(*                                                                         *)
(* The program is a Streamlit script.  One process serves one session; the *)
(* whole script runs again, top to bottom, on every widget interaction.    *)
(* The state that survives a run is the st.cache_data cache of             *)
(* load_pump_data, the widget values, and the two files on disk.  What a   *)
(* run renders is kept in ui.                                              *)
(*                                                                         *)
(* Python floats are modelled as exact rationals [n, d] in lowest terms.   *)
(* Values typed into the number inputs and capacities read from the        *)
(* spreadsheet are given in tenths (660 is 66.0).                          *)
(***************************************************************************)
EXTENDS Integers, Sequences, FiniteSets

VARIABLES
    pumps_csv,   \* pumps.csv on disk: [exists, rows], rows the 'Head m' cells
    stp_xlsx,    \* stp_output_summary.xlsx on disk: [state, column]
    cache,       \* st.cache_data entry of load_pump_data: <<>> or <<result>>
    load_count,  \* how many times the body of load_pump_data has run
    widgets,     \* values held by the input widgets of the session
    ui,          \* what the last script run rendered and computed
    stp_failed   \* history: some run of this process stopped on the capacity file

vars == <<pumps_csv, stp_xlsx, cache, load_count, widgets, ui, stp_failed>>

---------------------------------------------------------------------------
(* Bounds of the model.                                                    *)

\* Longest pumps.csv (number of data rows) the model writes to disk.
MaxRows == 2

---------------------------------------------------------------------------
(* Exact rational arithmetic standing for Python float arithmetic.         *)

Abs(x) == IF x < 0 THEN -x ELSE x

RECURSIVE GCD(_, _)
GCD(a, b) == IF b = 0 THEN a ELSE GCD(b, a % b)

Rat(n, d) ==
    LET g == GCD(Abs(n), Abs(d))
        s == IF d < 0 THEN -1 ELSE 1
    IN  [n |-> s * (n \div g), d |-> s * (d \div g)]

Whole(k) == [n |-> k, d |-> 1]

\* A decimal given in tenths, as typed with step 0.1.
Dec(t) == Rat(t, 10)

RAdd(x, y) ==
    LET g == GCD(x.d, y.d)
    IN  Rat(x.n * (y.d \div g) + y.n * (x.d \div g), x.d * (y.d \div g))

RSub(x, y) == RAdd(x, [n |-> -y.n, d |-> y.d])

RMul(x, y) ==
    LET a == Rat(x.n, y.d)
        b == Rat(y.n, x.d)
    IN  [n |-> a.n * b.n, d |-> a.d * b.d]

RDiv(x, y) == RMul(x, Rat(y.d, y.n))

RLess(x, y) == RSub(y, x).n > 0

---------------------------------------------------------------------------
(* Files on disk.                                                          *)

\* A 'Head m' cell of pumps.csv as text: a plain number a ("40"), a
\* bracketed two-element list "[a, b]", or a text that begins with '[' and
\* is no Python literal ("[30-45").
NumCell(a) == [k |-> "num", a |-> a, b |-> 0]
RangeCell(a, b) == [k |-> "range", a |-> a, b |-> b]
BadCell == [k |-> "bad", a |-> 0, b |-> 0]
NoText == [k |-> "none", a |-> 0, b |-> 0]

HeadCells == {NumCell(40), NumCell(118), RangeCell(30, 45), BadCell}

RECURSIVE SeqsUpTo(_, _)
SeqsUpTo(S, n) ==
    IF n = 0 THEN {<< >>}
    ELSE LET shorter == SeqsUpTo(S, n - 1)
         IN  shorter \cup {Append(q, x) : q \in shorter, x \in S}

MissingCsv == [exists |-> FALSE, rows |-> << >>]

PumpFiles ==
    {MissingCsv} \cup {[exists |-> TRUE, rows |-> r] : r \in SeqsUpTo(HeadCells, MaxRows)}

\* A cell of the "STP Capacity (KLD)" column: a number (in tenths) or empty.
CapCell(v) == [nan |-> FALSE, v |-> v]
NaNCell == [nan |-> TRUE, v |-> 0]

StpFiles ==
    { [state |-> "missing", column |-> << >>],
      [state |-> "corrupt", column |-> << >>],
      [state |-> "ok", column |-> << >>],
      [state |-> "ok", column |-> <<NaNCell, CapCell(1000)>>],
      [state |-> "ok", column |-> <<CapCell(1000), CapCell(0), CapCell(1000)>>],
      [state |-> "ok", column |-> <<CapCell(0)>>] }

---------------------------------------------------------------------------
(* load_pump_data                                                          *)

\* Python values of the 'Head m' and 'Min Head m' columns: a number, or a
\* str holding the text of a cell.
PyNum(v) == [t |-> "num", n |-> v, s |-> NoText]
PyStr(c) == [t |-> "str", n |-> 0, s |-> c]

\* pd.read_csv types a column as numbers when every cell parses as a number
\* and otherwise leaves every cell of the column as str.
ReadCsvColumn(cells) ==
    IF \A i \in DOMAIN cells : cells[i].k = "num"
    THEN [i \in DOMAIN cells |-> PyNum(cells[i].a)]
    ELSE [i \in DOMAIN cells |-> PyStr(cells[i])]

StartsWithBracket(x) == x.t = "str" /\ x.s.k \in {"range", "bad"}

\* ast.literal_eval(x) raises on a text that is no literal.
LiteralEvalRaises(x) == x.s.k = "bad"

\* ast.literal_eval(x)[0]
LiteralEvalFirst(x) == PyNum(x.s.a)

\* lambda x: ast.literal_eval(x)[0] if isinstance(x, str) and x.startswith('[') else x
MinHeadOf(x) == IF StartsWithBracket(x) THEN LiteralEvalFirst(x) ELSE x

CsvColumns == <<"Model", "Manufacturer", "HP", "Head m", "Suitability">>

\* pd.DataFrame()
EmptyFrame == [columns |-> << >>, rows |-> << >>]

Msg(level, text) == <<level, text>>

\* The body of load_pump_data: the frame it returns and the st.error it shows.
LoadPumpDataBody(csv) ==
    IF ~csv.exists
    THEN [df |-> EmptyFrame, messages |-> {Msg("error", "pumps.csv not found")}]
    ELSE LET head == ReadCsvColumn(csv.rows)
         IN  IF \E i \in DOMAIN head : StartsWithBracket(head[i]) /\ LiteralEvalRaises(head[i])
             THEN [df |-> EmptyFrame,
                   messages |-> {Msg("error", "Error loading pump data")}]
             ELSE [df |-> [columns |-> Append(CsvColumns, "Min Head m"),
                           rows |-> [i \in DOMAIN head |->
                                       [Model |-> i, HeadM |-> head[i],
                                        MinHead |-> MinHeadOf(head[i])]]],
                   messages |-> {}]

\* Variant of CacheHit: the function without its @st.cache_data decorator.
CacheNever(c) == FALSE

\* Variant of CacheStore: only a successful load is kept.
CacheStoreSuccessOnly(result) == IF result.messages # {} THEN << >> ELSE <<result>>

\* @st.cache_data: a stored return value is handed back without running the body.
CacheHit(c) == c # << >>

\* @st.cache_data stores whatever the body returned, the fallback frames too.
CacheStore(result) == <<result>>

\* pump_data = load_pump_data(): the value the call returns in this run
\* (st.cache_data replays the st.error of the stored call on a hit).
PumpData == IF CacheHit(cache) THEN cache[1] ELSE LoadPumpDataBody(pumps_csv)

CacheAfterLoad == IF CacheHit(cache) THEN cache ELSE CacheStore(PumpData)

LoadsNow == IF CacheHit(cache) THEN 0 ELSE 1

---------------------------------------------------------------------------
(* calculate_pump_head                                                     *)

\* Variant of Ceil: int(x), which drops the fraction instead of rounding up.
CeilTruncates(x) == x.n \div x.d

\* math.ceil: the least integer not below x.
Ceil(x) == -((-x.n) \div x.d)

SecondsPerDay == 24 * 60 * 60

FlowCoefficient == Rat(1, 10)         \* 0.1

\* Variant of LengthCoefficient: 0.83, a digit lost.
LengthCoefficientSlip == Rat(83, 100)

LengthCoefficient == Rat(83, 1000)    \* 0.083
LengthFactor == Rat(8, 10)            \* 0.8

\* The arguments are floats; the result holds the six returned values, with
\* the arguments of the call kept beside them.
calculate_pump_head(vertical_height, horizontal_distance, bends_fittings_loss, pressure_head_kgcm2, stp_capacity) ==
    LET pressure_head_meters == RMul(pressure_head_kgcm2, Whole(10))
        flow_rate_lps == RDiv(RMul(stp_capacity, Whole(1000)), Whole(SecondsPerDay))
        flow_friction_loss == RMul(FlowCoefficient, RMul(flow_rate_lps, flow_rate_lps))
        static_friction_loss ==
            RMul(RMul(RAdd(vertical_height, horizontal_distance), LengthCoefficient),
                 LengthFactor)
        total_friction_loss == RAdd(static_friction_loss, flow_friction_loss)
        total_head_unrounded ==
            RAdd(RAdd(RAdd(vertical_height, total_friction_loss), bends_fittings_loss),
                 pressure_head_meters)
        total_head == Ceil(total_head_unrounded)
    IN  [vertical_height |-> vertical_height,
         horizontal_distance |-> horizontal_distance,
         bends_fittings_loss |-> bends_fittings_loss,
         pressure_head_kgcm2 |-> pressure_head_kgcm2,
         stp_capacity |-> stp_capacity,
         flow_rate_lps |-> flow_rate_lps,
         flow_friction_loss |-> flow_friction_loss,
         total_friction_loss |-> total_friction_loss,
         total_head |-> total_head,
         pressure_head_meters |-> pressure_head_meters,
         total_head_unrounded |-> total_head_unrounded]

---------------------------------------------------------------------------
(* Pump matching: pump_data[pump_data['Min Head m'] >= total_head].copy()  *)

\* Variant of MeetsHead: > in place of >=.
MeetsHeadStrict(min_head, total_head) == min_head.n > total_head

\* The comparison of one 'Min Head m' value with total_head.
MeetsHead(min_head, total_head) == min_head.n >= total_head

\* Comparing a str with an int raises TypeError; the script does not catch it.
ComparisonRaises(df) == \E i \in DOMAIN df.rows : df.rows[i].MinHead.t = "str"

RECURSIVE MaskSelect(_, _)
MaskSelect(rows, mask) ==
    IF rows = << >> THEN << >>
    ELSE IF Head(mask)
         THEN <<Head(rows)>> \o MaskSelect(Tail(rows), Tail(mask))
         ELSE MaskSelect(Tail(rows), Tail(mask))

\* Boolean-mask indexing keeps the rows whose mask entry is True, in order.
SuitablePumps(df, total_head) ==
    LET mask == [i \in DOMAIN df.rows |-> MeetsHead(df.rows[i].MinHead, total_head)]
    IN  [columns |-> df.columns, rows |-> MaskSelect(df.rows, mask)]

DisplayColumns ==
    <<"Pump Model", "Manufacturer", "Horsepower (HP)", "Head Range (m)", "Suitability">>

\* suitable_pumps[['Model', ..., 'Suitability']] with its columns renamed: a
\* new frame; neither suitable_pumps nor pump_data is written.
RecommendedDisplay(suitable) ==
    [columns |-> DisplayColumns,
     rows |-> [i \in DOMAIN suitable.rows |->
                 [Model |-> suitable.rows[i].Model, HeadM |-> suitable.rows[i].HeadM]]]

\* Variant of IsEmpty: the emptiness test left out.
IsEmptyNever(df) == FALSE

\* DataFrame.empty
IsEmpty(df) == df.rows = << >>

---------------------------------------------------------------------------
(* The capacity selection: read_excel, dropna().unique().tolist(),         *)
(* st.selectbox, float().                                                  *)

RECURSIVE DropNa(_)
DropNa(col) ==
    IF col = << >> THEN << >>
    ELSE IF Head(col).nan THEN DropNa(Tail(col))
         ELSE <<Head(col).v>> \o DropNa(Tail(col))

Contains(q, x) == \E i \in DOMAIN q : q[i] = x

RECURSIVE UniqueFrom(_, _)
UniqueFrom(seen, rest) ==
    IF rest = << >> THEN seen
    ELSE IF Contains(seen, Head(rest)) THEN UniqueFrom(seen, Tail(rest))
         ELSE UniqueFrom(Append(seen, Head(rest)), Tail(rest))

\* Series.unique(): the distinct values in order of first appearance.
Unique(q) == UniqueFrom(<< >>, q)

\* Variant of StopsOn: st.stop() left out of the `except Exception` branch.
StopsOnMissingOnly(status) == status = "missing"

\* st.stop() ends the run in both except branches.
StopsOn(status) == status # "ok"

\* Lines 64-75: what the try block yields: the options shown, the capacity
\* chosen (tenths), and how the block ended.  st.selectbox returns the
\* option at the chosen index, the first one when the index is out of
\* range, and None with no options, on which float() raises.
LoadStpCapacity(xlsx, index) ==
    IF xlsx.state = "missing"
    THEN [status |-> "missing", options |-> << >>, capacity |-> 0]
    ELSE IF xlsx.state = "corrupt"
    THEN [status |-> "error", options |-> << >>, capacity |-> 0]
    ELSE LET stp_options == Unique(DropNa(xlsx.column))
         IN  IF stp_options = << >>
             THEN [status |-> "error", options |-> stp_options, capacity |-> 0]
             ELSE [status |-> "ok", options |-> stp_options,
                   capacity |-> IF index \in DOMAIN stp_options
                                THEN stp_options[index] ELSE stp_options[1]]

StpMessages(status) ==
    IF status = "missing" THEN {Msg("error", "stp_output_summary.xlsx not found")}
    ELSE IF status = "error" THEN {Msg("error", "Failed to load STP Capacity from Excel")}
    ELSE {}

---------------------------------------------------------------------------
(* One run of the script.                                                  *)

\* What a run that has rendered nothing yet shows.
BlankUi ==
    [messages |-> {}, halted |-> FALSE, crashed |-> FALSE,
     button_offered |-> FALSE, clicked |-> FALSE, options |-> << >>,
     calc |-> << >>, suitable |-> << >>, display |-> << >>]

\* Lines 80-136: the body of `if st.button(...)`, on the page built so far.
CalculateButton(page, pump_data, w, stp_capacity) ==
    IF IsEmpty(pump_data.df)
    THEN [page EXCEPT !.clicked = TRUE,
                      !.messages = @ \cup {Msg("error", "Pump data not loaded")}]
    ELSE LET r == calculate_pump_head(Dec(w.vertical_height), Dec(w.horizontal_distance),
                                      Dec(w.bends_fittings_loss),
                                      Dec(w.pressure_head_kgcm2), Dec(stp_capacity))
             shown == [page EXCEPT !.clicked = TRUE, !.calc = <<r>>,
                                   !.messages = @ \cup {Msg("success", "Total Head Required")}]
         IN  IF ComparisonRaises(pump_data.df)
             THEN [shown EXCEPT !.crashed = TRUE]
             ELSE LET suitable_pumps == SuitablePumps(pump_data.df, r.total_head)
                  IN  IF IsEmpty(suitable_pumps)
                      THEN [shown EXCEPT !.suitable = <<suitable_pumps>>,
                                         !.messages = @ \cup {Msg("warning", "No suitable pumps found")}]
                      ELSE [shown EXCEPT !.suitable = <<suitable_pumps>>,
                                         !.display = <<RecommendedDisplay(suitable_pumps)>>]

\* Lines 22-136: the script from the catalog load to the end of the button
\* body, with widget values w and the button pressed or not.
RunScript(w, pressed) ==
    LET pump_data == PumpData
        stp == LoadStpCapacity(stp_xlsx, w.capacity_index)
        page == [BlankUi EXCEPT !.messages = pump_data.messages \cup StpMessages(stp.status),
                                !.options = stp.options]
    IN  IF StopsOn(stp.status)
        THEN [page EXCEPT !.halted = TRUE]
        ELSE IF pressed
             THEN CalculateButton([page EXCEPT !.button_offered = TRUE], pump_data, w, stp.capacity)
             ELSE [page EXCEPT !.button_offered = TRUE]

---------------------------------------------------------------------------
(* Widgets                                                                 *)

\* value= of the four st.number_input calls (tenths); the selectbox starts
\* on its first option.
DefaultWidgets ==
    [vertical_height |-> 660, horizontal_distance |-> 1090,
     bends_fittings_loss |-> 50, pressure_head_kgcm2 |-> 35, capacity_index |-> 1]

\* min_value=0.0 of every st.number_input.
MinValue == 0

\* What the user may type into a number input: a negative number or the
\* value the field starts with and, for the height and the pressure, zero.
Typed(field) ==
    {-10, DefaultWidgets[field]}
        \cup (IF field \in {"vertical_height", "pressure_head_kgcm2"} THEN {0} ELSE {})

\* st.number_input keeps a typed value only when it is not below min_value.
NumberInputAccepts(x) == x >= MinValue

\* The positions the user may pick in the capacity selectbox.
Positions == 1..2

---------------------------------------------------------------------------
(* Initial state and actions                                               *)

Init ==
    /\ pumps_csv \in PumpFiles
    /\ stp_xlsx \in StpFiles
    /\ cache = << >>
    /\ load_count = 0
    /\ widgets = DefaultWidgets
    /\ ui = BlankUi
    /\ stp_failed = FALSE

\* A run of the whole script with widget values w.
Run(w, pressed) ==
    /\ widgets' = w
    /\ cache' = CacheAfterLoad
    /\ load_count' = load_count + LoadsNow
    /\ ui' = RunScript(w, pressed)
    /\ stp_failed' = (stp_failed \/ ui'.halted)
    /\ UNCHANGED <<pumps_csv, stp_xlsx>>

\* The session opens, the page is reloaded, or the pipe size text is edited:
\* the script runs with the widget values as they are.
Rerun == Run(widgets, FALSE)

SetNumber(field, x) ==
    /\ NumberInputAccepts(x)
    /\ Run([widgets EXCEPT ![field] = x], FALSE)

SetVerticalHeight == \E x \in Typed("vertical_height") : SetNumber("vertical_height", x)

SetHorizontalDistance == \E x \in Typed("horizontal_distance") : SetNumber("horizontal_distance", x)

SetBendsFittingsLoss == \E x \in Typed("bends_fittings_loss") : SetNumber("bends_fittings_loss", x)

SetRequiredPressure == \E x \in Typed("pressure_head_kgcm2") : SetNumber("pressure_head_kgcm2", x)

\* The selectbox can be used once a run has rendered it with that option.
SelectCapacity ==
    \E i \in Positions :
        /\ i \in DOMAIN ui.options
        /\ Run([widgets EXCEPT !.capacity_index = i], FALSE)

\* The button can be pressed once a run has rendered it.
ClickCalculate ==
    /\ ui.button_offered
    /\ Run(widgets, TRUE)

\* The user replaces stp_output_summary.xlsx on disk.
EditStpXlsx ==
    /\ \E f \in StpFiles : f # stp_xlsx /\ stp_xlsx' = f
    /\ UNCHANGED <<pumps_csv, cache, load_count, widgets, ui, stp_failed>>

PumpDataErrors ==
    {Msg("error", "pumps.csv not found"), Msg("error", "Error loading pump data"),
     Msg("error", "Pump data not loaded")}

\* The user, shown one of the pump data errors, replaces pumps.csv on disk.
RepairPumpsCsv ==
    /\ ui.messages \cap PumpDataErrors # {}
    /\ \E f \in PumpFiles : f # pumps_csv /\ pumps_csv' = f
    /\ UNCHANGED <<stp_xlsx, cache, load_count, widgets, ui, stp_failed>>

Next ==
    \/ Rerun
    \/ SetVerticalHeight
    \/ SetHorizontalDistance
    \/ SetBendsFittingsLoss
    \/ SetRequiredPressure
    \/ SelectCapacity
    \/ ClickCalculate
    \/ EditStpXlsx
    \/ RepairPumpsCsv

Spec == Init /\ [][Next]_vars

\* A step that runs the script: the steps that leave both files as they are
\* (Run is the only action that does; the two file actions each change a file).
ScriptRuns == pumps_csv' = pumps_csv /\ stp_xlsx' = stp_xlsx

\* A step in which the button is pressed and its body runs.
ButtonRuns == ScriptRuns /\ ui.button_offered /\ ui'.clicked

---------------------------------------------------------------------------
(* Claims                                                                  *)

\* The rows of the catalog this process holds, and of the last matcher result.
CatalogRows == IF cache = << >> THEN << >> ELSE cache[1].df.rows
MatchedRows == ui.suitable[1].rows

\* C1: whenever the matcher has produced suitable_pumps, it is exactly the
\* catalog rows whose 'Min Head m' >= total_head: every returned row is a
\* catalog row meeting the head, no catalog row meeting it is left out, and
\* the returned rows are in the catalog's order (Model is the row's position
\* in the file), none twice.
C1_MatcherIsStableFilter ==
    ui.suitable # << >> =>
        LET th == ui.calc[1].total_head
        IN  /\ \A j \in DOMAIN MatchedRows :
                \E i \in DOMAIN CatalogRows :
                    /\ CatalogRows[i] = MatchedRows[j]
                    /\ CatalogRows[i].MinHead.n >= th
            /\ \A i \in DOMAIN CatalogRows :
                CatalogRows[i].MinHead.n >= th =>
                    \E j \in DOMAIN MatchedRows : MatchedRows[j] = CatalogRows[i]
            /\ \A j, k \in DOMAIN MatchedRows :
                j < k => MatchedRows[j].Model < MatchedRows[k].Model

\* C1 witness: a match that keeps the second row of a two-row catalog and
\* drops the first, the kept row's minimum head being exactly total_head.
C1_Witness ==
    /\ ui.suitable # << >>
    /\ Len(CatalogRows) = 2
    /\ Len(MatchedRows) = 1
    /\ MatchedRows[1].Model = 2
    /\ MatchedRows[1].MinHead.n = ui.calc[1].total_head

\* C2: total_head is an integer, is not below total_head_unrounded, and
\* exceeds it by less than 1 (all arguments being non-negative).
C2_TotalHeadIsCeiling ==
    ui.calc # << >> =>
        LET r == ui.calc[1]
            u == r.total_head_unrounded
        IN  /\ r.total_head \in Int
            /\ r.total_head * u.d >= u.n
            /\ r.total_head * u.d - u.n < u.d

\* C2 witness: a calculation whose unrounded head is not a whole number, so
\* that rounding up moved it.
C2_Witness ==
    /\ ui.calc # << >>
    /\ ui.calc[1].total_head_unrounded.d > 1
    /\ ui.calc[1].vertical_height.n >= 0
    /\ ui.calc[1].stp_capacity.n > 0

\* The inputs of the worked example: 66, 109, 5, 3.5 and 100.
IsExampleCall(r) ==
    /\ r.vertical_height = Whole(66)
    /\ r.horizontal_distance = Whole(109)
    /\ r.bends_fittings_loss = Whole(5)
    /\ r.pressure_head_kgcm2 = [n |-> 7, d |-> 2]
    /\ r.stp_capacity = Whole(100)

\* C3: every call returns pressureHead = pressure * 10, flowRate =
\* capacity * 1000 / 86400, flowFrictionLoss = 0.1 * flowRate^2, a static
\* loss (total minus flow friction) of (height + distance) * 0.083 * 0.8 and
\* totalHeadUnrounded = height + totalFrictionLoss + fittings + pressureHead;
\* the example inputs give pressureHead 35, an unrounded head between 117.74
\* and 117.76, and totalHead 118.  The equations are stated by cross
\* multiplication on the numerators and denominators.
C3_HeadFormula ==
    ui.calc # << >> =>
        LET r == ui.calc[1]
            p == r.pressure_head_kgcm2
            ph == r.pressure_head_meters
            c == r.stp_capacity
            fl == r.flow_rate_lps
            ff == r.flow_friction_loss
            static == RSub(r.total_friction_loss, r.flow_friction_loss)
            len == RAdd(r.vertical_height, r.horizontal_distance)
            rest == RSub(RSub(RSub(r.total_head_unrounded, r.pressure_head_meters),
                              r.bends_fittings_loss), r.vertical_height)
        IN  /\ ph.n * p.d = 10 * p.n * ph.d
            /\ fl.n * 86400 * c.d = c.n * 1000 * fl.d
            /\ 10 * ff.n * fl.d * fl.d = fl.n * fl.n * ff.d
            /\ static.n * 10000 * len.d = len.n * 83 * 8 * static.d
            /\ rest = r.total_friction_loss
            /\ IsExampleCall(r) =>
                /\ ph = Whole(35)
                /\ RLess(Rat(11774, 100), r.total_head_unrounded)
                /\ RLess(r.total_head_unrounded, Rat(11776, 100))
                /\ r.total_head = 118

\* C3 witness: the example has been calculated.
C3_Witness == ui.calc # << >> /\ IsExampleCall(ui.calc[1])

\* C4: every call of calculate_pump_head has non-negative height, distance,
\* fittings loss and pressure and a capacity above zero.
C4_ArgumentsValidated ==
    ui.calc # << >> =>
        LET r == ui.calc[1]
        IN  /\ r.vertical_height.n >= 0
            /\ r.horizontal_distance.n >= 0
            /\ r.bends_fittings_loss.n >= 0
            /\ r.pressure_head_kgcm2.n >= 0
            /\ r.stp_capacity.n > 0

HasLevel(messages, level) == \E m \in messages : m[1] = level

\* The button was pressed in the last run and the catalog held is empty.
PressedOnEmptyCatalog ==
    /\ ui.clicked
    /\ cache # << >>
    /\ cache[1].df.rows = << >>

\* C5 as claimed: pressed on an empty catalog, the run still calculates a
\* total head, the matcher returns an empty table without failing, and the
\* condition is shown as a warning, not as an error.
C5_EmptyCatalogStillCalculates ==
    PressedOnEmptyCatalog =>
        /\ ui.calc # << >>
        /\ ui.suitable # << >>
        /\ ui.suitable[1].rows = << >>
        /\ ~ui.crashed
        /\ HasLevel(ui.messages, "warning")
        /\ Msg("error", "Pump data not loaded") \notin ui.messages

\* C5 as amended: pressed on an empty catalog, the run calculates nothing and
\* matches nothing, raises no failure, and reports the condition with the
\* error "Pump data not loaded", with no warning.
C5_EmptyCatalogBlocksCalculation ==
    PressedOnEmptyCatalog =>
        /\ ui.calc = << >>
        /\ ui.suitable = << >>
        /\ ui.display = << >>
        /\ ~ui.crashed
        /\ ~ui.halted
        /\ Msg("error", "Pump data not loaded") \in ui.messages
        /\ ~HasLevel(ui.messages, "warning")

\* C5 witness: the button pressed on the catalog of a pumps.csv that has
\* its header and no rows.
C5_Witness ==
    /\ PressedOnEmptyCatalog
    /\ cache[1].messages = {}
    /\ Msg("error", "Pump data not loaded") \in ui.messages

\* The number a 'Head m' value stands for: the first element of a bracketed
\* range, the value of a scalar.
HeadNumber(x) == IF x.t = "num" THEN x.n ELSE x.s.a

\* C6: every row of the loaded catalog has a number as 'Min Head m': the
\* first element of the range for a bracketed head field, the field's value
\* for a scalar one, also when both kinds occur in one catalog.
C6_MinHeadIsNumber ==
    \A i \in DOMAIN CatalogRows :
        /\ CatalogRows[i].MinHead.t = "num"
        /\ CatalogRows[i].MinHead.n = HeadNumber(CatalogRows[i].HeadM)

\* C7: no run ends with a failure raised out of the script.
C7_NoUnhandledFailure == ~ui.crashed

\* C8: a run that finds the capacity file missing or unreadable shows an
\* error and stops before the button: it leaves no button to press, no
\* calculation, no matched table and no display table.
C8_CapacityFailureBlocks ==
    [][(ScriptRuns /\ stp_xlsx.state \in {"missing", "corrupt"}) =>
          /\ ui'.halted
          /\ HasLevel(ui'.messages \ (IF cache' = << >> THEN {} ELSE cache'[1].messages), "error")
          /\ ~ui'.button_offered
          /\ ~ui'.clicked
          /\ ui'.calc = << >>
          /\ ui'.suitable = << >>
          /\ ui'.display = << >>]_vars

\* C8 witness: the last run found the capacity file missing, said so and
\* stopped; the button cannot be pressed.
C8_Witness ==
    /\ stp_xlsx.state = "missing"
    /\ ui.halted
    /\ Msg("error", "stp_output_summary.xlsx not found") \in ui.messages
    /\ ~ENABLED ClickCalculate

\* C9: the body of load_pump_data runs at most once in the process, and once
\* the catalog is held no step changes it, its rows, columns and values:
\* not a calculation, not a match, not the renaming of the display table's
\* columns.
C9_CatalogLoadedOnceAndFrozen ==
    [][/\ load_count' <= 1
       /\ cache # << >> => cache' = cache]_vars

\* C9 witness: a catalog loaded once, from which a run has matched pumps and
\* built the display table with its renamed columns, the catalog keeping
\* its own columns.
C9_Witness ==
    /\ load_count = 1
    /\ ui.display # << >>
    /\ ui.display[1].columns = DisplayColumns
    /\ cache[1].df.columns = Append(CsvColumns, "Min Head m")
    /\ ui.suitable[1].columns = cache[1].df.columns

\* A pumps.csv that loads into a catalog the matcher can use, and a capacity
\* file that offers a capacity.
LoadableCsv(csv) ==
    /\ csv.exists
    /\ csv.rows # << >>
    /\ \/ \A i \in DOMAIN csv.rows : csv.rows[i].k = "num"
       \/ \A i \in DOMAIN csv.rows : csv.rows[i].k = "range"

UsableXlsx(xlsx) ==
    /\ xlsx.state = "ok"
    /\ \E i \in DOMAIN xlsx.column : ~xlsx.column[i].nan

\* The st.error calls of load_pump_data.
LoaderErrors ==
    {Msg("error", "pumps.csv not found"), Msg("error", "Error loading pump data")}

\* C10 as claimed: whatever failed before, once both files on disk are in
\* order, pressing the button again in the same process calculates the head
\* and matches the pumps from the files as they now are.
C10_RerunRecoversFromLoadFailure ==
    [][(ButtonRuns /\ LoadableCsv(pumps_csv) /\ UsableXlsx(stp_xlsx)) =>
          /\ ui'.calc # << >>
          /\ ui'.suitable # << >>]_vars

\* C10 as amended: a run on a usable capacity file does not stop and offers
\* that file's capacities, whatever capacity failure came before; but once
\* load_pump_data has reported a failure in this process, every later run
\* reports it again and calculates and matches nothing, whatever pumps.csv
\* holds by then.
C10_OnlyCapacityFileRecovers ==
    [][ScriptRuns =>
          /\ UsableXlsx(stp_xlsx) =>
                /\ ~ui'.halted
                /\ ui'.button_offered
                /\ \A i \in DOMAIN ui'.options :
                      \E j \in DOMAIN stp_xlsx.column :
                          ~stp_xlsx.column[j].nan /\ stp_xlsx.column[j].v = ui'.options[i]
                /\ ui'.calc # << >> =>
                      \E i \in DOMAIN ui'.options : ui'.calc[1].stp_capacity = Dec(ui'.options[i])
          /\ ui.messages \cap LoaderErrors # {} =>
                /\ ui'.messages \cap LoaderErrors = ui.messages \cap LoaderErrors
                /\ ui'.calc = << >>
                /\ ui'.suitable = << >>]_vars

\* C10 witness: after a run stopped on the capacity file and the catalog
\* load failed, both files are in order on disk and the button has been
\* pressed: the run did not stop, and it reported that pump data is not
\* loaded.
C10_Witness ==
    /\ stp_failed
    /\ UsableXlsx(stp_xlsx)
    /\ LoadableCsv(pumps_csv)
    /\ cache # << >>
    /\ cache[1].messages \cap LoaderErrors # {}
    /\ ui.clicked
    /\ ~ui.halted
    /\ Msg("error", "Pump data not loaded") \in ui.messages

===========================================================================
